---- MODULE Spec2Model ----
(***************************************************************************)
(* State-machine model of server.py: an aiohttp application with two       *)
(* class-based views (UserView, AdvView) over two SQLAlchemy tables         *)
(* (users, advertisements), validated by pydantic models.                   *)
(*                                                                          *)
(* Each request is a task; an action is one run of a handler from one       *)
(* suspension point (await) to the next, or to its response.  The database  *)
(* executes a statement at the step in which the await on it completes; a   *)
(* commit is atomic.  The pydantic models are the version-1 ones the        *)
(* source is written for (Optional fields default to None, .dict()).        *)
(***************************************************************************)
EXTENDS Integers, Sequences, FiniteSets, TLC

VARIABLES users, advs, users_id_seq, advs_id_seq, open_sessions, req, last,
          created, deleted

vars == <<users, advs, users_id_seq, advs_id_seq, open_sessions, req, last,
          created, deleted>>

(***************************************************************************)
(* Bounds of the model.                                                     *)
(***************************************************************************)
\* rows ever inserted into users (values drawn from users_id_seq)
MaxUsers == 2
\* rows ever inserted into advertisements (values drawn from advs_id_seq)
MaxAdvs == 1
\* the requests that can be in flight at the same time
MaxRequests == 2

\* a request in flight is a task of the event loop, named by its slot
Requests == 1 .. MaxRequests

(***************************************************************************)
(* Program constants.                                                       *)
(***************************************************************************)
\* Column(Integer): a 32-bit signed column, the largest value it holds
INT4_MAX == 2147483647

(***************************************************************************)
(* JSON values, as the request and response bodies carry them.  A value is *)
(* its type and its text: the string "1" and the number 1 differ in type.  *)
(***************************************************************************)
Digits == <<"0", "1", "2", "3", "4", "5", "6", "7", "8", "9">>

\* Python's str() of a non-negative int: its decimal numeral
RECURSIVE str(_)
str(n) == IF n < 10 THEN Digits[n + 1] ELSE str(n \div 10) \o Digits[(n % 10) + 1]

\* A Python int has no width, the Integer column has one: an int that a
\* request brings (in its path, in its body) is carried as its numeral until
\* it is bound to a column.  Huge is the one numeral of the model that no
\* Integer column holds.
Huge == "99999999999"

\* the integers that fit the column and whose numerals occur in the model
IntDomain == 0 .. (MaxUsers + 1)

Numerals == {str(n) : n \in IntDomain} \cup {Huge}

\* whether Python's int() accepts the text
isdigit(s) == s \in Numerals

\* the value of a numeral that fits the column
int(s) == CHOOSE n \in IntDomain : str(n) = s

JStr(s) == [t |-> "str", s |-> s]
JInt(n) == [t |-> "int", s |-> str(n)]
JHuge == [t |-> "int", s |-> Huge]
JNull == [t |-> "null", s |-> ""]
JList == [t |-> "list", s |-> ""]

(***************************************************************************)
(* Validation models (pydantic).  A result is [ok, dict]: ok is FALSE when *)
(* the constructor raises ValidationError.                                  *)
(***************************************************************************)
\* a str field takes a string, and coerces a number to its text
str_ok(v) == v.t \in {"str", "int"}
str_validator(v) == v.s

\* an int field takes a number, and coerces a string that is a numeral
int_ok(v) == v.t = "int" \/ (v.t = "str" /\ isdigit(v.s))
int_validator(v) == v.s

required_str(obj, f) == f \in DOMAIN obj /\ str_ok(obj[f])
required_int(obj, f) == f \in DOMAIN obj /\ int_ok(obj[f])

\* Optional[str]: absent and null both give None
optional_str(obj, f) == f \in DOMAIN obj => (obj[f].t = "null" \/ str_ok(obj[f]))
is_none(obj, f) == f \notin DOMAIN obj \/ obj[f].t = "null"

ValidationError == [ok |-> FALSE, dict |-> <<>>]

CreateUserModel(obj) ==
    IF required_str(obj, "username") /\ required_str(obj, "password")
    THEN [ok |-> TRUE,
          dict |-> [username |-> str_validator(obj.username),
                    password |-> str_validator(obj.password)]]
    ELSE ValidationError

CreateAdvModel(obj) ==
    IF /\ required_str(obj, "title")
       /\ required_str(obj, "description")
       /\ required_int(obj, "user_id")
    THEN [ok |-> TRUE,
          dict |-> [title |-> str_validator(obj.title),
                    description |-> str_validator(obj.description),
                    user_id |-> int_validator(obj.user_id)]]
    ELSE ValidationError

\* .dict(exclude_none=True) of a model whose fields are all Optional[str]
exclude_none(obj, fields) ==
    [f \in {g \in fields : ~is_none(obj, g)} |-> str_validator(obj[f])]

PatchUserModel(obj) ==
    IF optional_str(obj, "username") /\ optional_str(obj, "password")
    THEN [ok |-> TRUE, dict |-> exclude_none(obj, {"username", "password"})]
    ELSE ValidationError

PatchAdvModel(obj) ==
    IF optional_str(obj, "title") /\ optional_str(obj, "description")
    THEN [ok |-> TRUE, dict |-> exclude_none(obj, {"title", "description"})]
    ELSE ValidationError

(***************************************************************************)
(* Responses.  Every field of a response body is a JSON value.             *)
(***************************************************************************)
json_response(data) == [status |-> 200, kind |-> "Response", body |-> data]

ApiError(status_code, error_message) ==
    [status |-> status_code, kind |-> "HTTPException",
     body |-> [status |-> JStr("error"), description |-> JStr(error_message)]]

NotFound(error_message) == ApiError(404, error_message)

BadRequest(error_message) == ApiError(400, error_message)

\* an exception that is no web.HTTPException leaves the handler: the
\* listener answers it on its default error path
unhandled(exc) ==
    [status |-> 500, kind |-> "Exception", body |-> [exception |-> JStr(exc)]]

\* post returns a plain dict, which is no response object: the listener
\* rejects it on its error path, and the client gets no 200
returned_dict(d) == [status |-> 500, kind |-> "dict", body |-> d]

NoResponse == [status |-> 0, kind |-> "", body |-> <<>>]

(***************************************************************************)
(* Tables and rows.  A nullable column holds a set: {} is NULL.            *)
(***************************************************************************)
User(json_data, id) ==
    [id |-> id, username |-> json_data.username, password |-> json_data.password]

\* title and description stored in each other's column
Advertisement_swapped(json_data, id, now) ==
    [id |-> id, title |-> json_data.description, description |-> json_data.title,
     creation_time |-> now, user_id |-> {int(json_data.user_id)}]

Advertisement(json_data, id, now) ==
    [id |-> id, title |-> json_data.title, description |-> json_data.description,
     creation_time |-> now, user_id |-> {int(json_data.user_id)}]

\* users.username declared without unique=True
unique_violation_never(table, username, id) == FALSE

\* unique=True on users.username: the value is held by a row other than id
unique_violation(table, username, id) ==
    \E u \in DOMAIN table : u # id /\ table[u].username = username

\* advertisements.user_id declared without its ForeignKey
foreign_key_violation_never(table, user_id) == FALSE

\* ForeignKey('users.id') on advertisements.user_id
foreign_key_violation(table, user_id) == user_id \notin DOMAIN table

\* the bind parameter does not fit the Integer column: the driver raises
\* (a numeral of more digits than INT4_MAX has; the shorter ones of the model fit)
out_of_range(n) == Len(n) > Len(str(INT4_MAX))

insert(table, row) ==
    [i \in DOMAIN table \cup {row.id} |-> IF i = row.id THEN row ELSE table[i]]

\* a delete that never reaches the table
session_delete_lost(table, id) == table

\* DELETE ... WHERE id = :id (no row matched is no error)
session_delete(table, id) == [i \in DOMAIN table \ {id} |-> table[i]]

\* the columns the flush writes: those whose value differs from the loaded one
net_changes(loaded, json_data) ==
    {column \in DOMAIN json_data : json_data[column] # loaded[column]}

\* UPDATE ... SET <changed columns> WHERE id = :id
update(table, id, json_data, columns) ==
    [table EXCEPT ![id] =
        [c \in DOMAIN table[id] |->
            IF c \in columns THEN json_data[c] ELSE table[id][c]]]

\* session.get and the check that follows it
lookup(table, id, error_message) ==
    IF out_of_range(id) THEN [raise |-> "DBAPIError", row |-> <<>>]
    ELSE IF int(id) \notin DOMAIN table THEN [raise |-> error_message, row |-> <<>>]
    ELSE [raise |-> "", row |-> table[int(id)]]

get_user(user_id) == lookup(users, user_id, "user not found")

get_adv(adv_id) == lookup(advs, adv_id, "advertisement not found")

\* the response a failed lookup ends the request with
lookup_error(res) ==
    IF res.raise = "DBAPIError" THEN unhandled("DBAPIError") ELSE NotFound(res.raise)

(***************************************************************************)
(* Requests.                                                                *)
(***************************************************************************)
NoBody == [json |-> FALSE, obj |-> <<>>]

Json(obj) == [json |-> TRUE, obj |-> obj]

IdleReq ==
    [pc |-> "idle", view |-> "", method |-> "", id |-> "", body |-> NoBody,
     json_data |-> <<>>, loaded |-> <<>>, children |-> {}, opened |-> 0,
     committed |-> FALSE, after |-> ""]

\* the ids the routes are called with: \d+ matches any numeral
UserIds == {str(n) : n \in 1 .. MaxUsers}

AdvIds == {str(n) : n \in 1 .. MaxAdvs}

\* the bodies the requests bring; NoBody is a body that is no JSON
CreateUserBodies ==
    { Json([username |-> JStr("a"), password |-> JStr("p")]),
      Json([username |-> JStr("b"), password |-> JStr("p")]),
      Json([username |-> JStr("a")]) }

PatchUserBodies ==
    { Json([username |-> JStr("b"), password |-> JNull]),
      Json([username |-> JList]),
      NoBody }

CreateAdvBodies ==
    { Json([title |-> JStr("t"), description |-> JStr("d"), user_id |-> JInt(1)]),
      Json([title |-> JStr("t"), description |-> JStr("d"), user_id |-> JStr("1")]),
      Json([title |-> JStr("t"), description |-> JStr("d"), user_id |-> JHuge]),
      Json([title |-> JStr("t"), description |-> JStr("d"), user_id |-> JStr("x")]) }

PatchAdvBodies ==
    { Json([title |-> JStr("n")]),
      Json([title |-> JStr("t"), description |-> JNull, user_id |-> JInt(2)]),
      Json([title |-> JList]) }

\* async with Session() as session: entering the block
Session(r) == open_sessions \cup {r}

\* a session closed at the end of the block only, not when the block raises
aexit_on_return(r, resp) ==
    IF resp.kind \in {"HTTPException", "Exception"} THEN open_sessions
    ELSE open_sessions \ {r}

\* async with Session() as session: leaving the block, by return or by raise
aexit(r, resp) == open_sessions \ {r}

InFlight(r) == req[r].pc # "idle"

\* the task of a new request takes the first free slot
Free(r) == ~InFlight(r) /\ \A q \in Requests : q < r => InFlight(q)

\* what went before a request that arrives: the DELETE of its id answered
\* with success, or the create of its id with no PATCH or DELETE of it since
After(view, id) ==
    IF <<view, id>> \in deleted THEN "delete"
    ELSE IF \E e \in created : e.view = view /\ e.id = id THEN "create"
    ELSE ""

\* a new request of a view and method, up to its first await
arrive(view, method, id, pc, opened) ==
    [IdleReq EXCEPT !.pc = pc, !.view = view, !.method = method, !.id = id,
                    !.opened = opened, !.after = After(view, id)]

At(r, view, method, pc) ==
    req[r].pc = pc /\ req[r].view = view /\ req[r].method = method

\* last is the request that ended in the step just taken, with its response:
\* the response is on the wire in that step, and NoRequest after any other
NoRequest ==
    [view |-> "", method |-> "", id |-> "", body |-> NoBody, opened |-> 0,
     committed |-> FALSE, after |-> "", resp |-> NoResponse, inflight |-> {}]

\* the handler of r ends with resp
Finish(r, rq, resp) ==
    /\ req' = [req EXCEPT ![r] = IdleReq]
    /\ open_sessions' = aexit(r, resp)
    /\ last' = [view |-> rq.view, method |-> rq.method, id |-> rq.id,
                body |-> rq.body, opened |-> rq.opened,
                committed |-> rq.committed, after |-> rq.after,
                resp |-> resp,
                inflight |-> {q \in Requests \ {r} : InFlight(q)}]

\* the handler of r runs on to its next await
Continue(r, rq, sessions) ==
    /\ req' = [req EXCEPT ![r] = rq]
    /\ open_sessions' = sessions
    /\ last' = NoRequest

Init ==
    /\ users = <<>>
    /\ advs = <<>>
    /\ users_id_seq = 0
    /\ advs_id_seq = 0
    /\ open_sessions = {}
    /\ req = [r \in Requests |-> IdleReq]
    /\ last = NoRequest
    /\ created = {}
    /\ deleted = {}

\* a PATCH or DELETE has loaded the row: it is no longer as created
touch(view, id) == {e \in created : ~(e.view = view /\ e.id = id)}

\* an advertisement as created, once a DELETE of its user has committed
disown(entries, user_id) ==
    {IF e.view = "AdvView" /\ int_validator(e.obj.user_id) = user_id
     THEN [e EXCEPT !.owner = FALSE] ELSE e : e \in entries}

Db == <<users, advs, users_id_seq, advs_id_seq>>

\* the POST requests of a view that have not yet drawn from its sequence
Posting(view) == Cardinality({q \in Requests : req[q].view = view
                                               /\ req[q].method = "POST"})

(***************************************************************************)
(* UserView.                                                                *)
(***************************************************************************)
\* get, to "await get_user": the session is open, the query is on its way
UserView_get(r, user_id) ==
    /\ Free(r)
    /\ Continue(r, arrive("UserView", "GET", user_id, "get_user", 1), Session(r))
    /\ UNCHANGED <<Db, created, deleted>>

\* get, from the lookup to the response
UserView_get_user(r) ==
    /\ At(r, "UserView", "GET", "get_user")
    /\ LET res == get_user(req[r].id)
           user == res.row
       IN  IF res.raise # ""
           THEN Finish(r, req[r], lookup_error(res))
           ELSE Finish(r, req[r],
                       json_response([id_user |-> JInt(user.id),
                                      username |-> JStr(user.username)]))
    /\ UNCHANGED <<Db, created, deleted>>

\* post, to "await self.request.json()"
UserView_post(r) ==
    /\ Free(r)
    /\ users_id_seq + Posting("UserView") < MaxUsers
    /\ Continue(r, arrive("UserView", "POST", "", "json", 0), open_sessions)
    /\ UNCHANGED <<Db, created, deleted>>

\* post, from the body to "await session.commit()"
UserView_post_json(r, body) ==
    /\ At(r, "UserView", "POST", "json")
    /\ LET json_data == CreateUserModel(body.obj)
           rq == [req[r] EXCEPT !.body = body]
       IN  IF ~body.json
           THEN Finish(r, rq, unhandled("JSONDecodeError"))
           ELSE IF ~json_data.ok
           THEN Finish(r, rq, unhandled("ValidationError"))
           ELSE Continue(r, [rq EXCEPT !.pc = "commit",
                                       !.json_data = json_data.dict,
                                       !.opened = @ + 1],
                         Session(r))
    /\ UNCHANGED <<Db, created, deleted>>

\* post, from the commit (INSERT, COMMIT) to the return
UserView_post_commit(r) ==
    /\ At(r, "UserView", "POST", "commit")
    /\ LET new_user == User(req[r].json_data, users_id_seq + 1)
       IN  /\ users_id_seq' = users_id_seq + 1
           /\ IF unique_violation(users, new_user.username, new_user.id)
              THEN /\ Finish(r, req[r], BadRequest("user already exists"))
                   /\ UNCHANGED <<users, created>>
              ELSE /\ users' = insert(users, new_user)
                   /\ Finish(r, [req[r] EXCEPT !.committed = TRUE],
                             returned_dict([id |-> JInt(new_user.id)]))
                   /\ created' = created \cup
                        {[view |-> "UserView", id |-> str(new_user.id),
                          obj |-> req[r].body.obj, owner |-> TRUE]}
    /\ UNCHANGED <<advs, advs_id_seq, deleted>>

\* delete, to "await get_user"
UserView_delete(r, user_id) ==
    /\ Free(r)
    /\ Continue(r, arrive("UserView", "DELETE", user_id, "get_user", 1), Session(r))
    /\ UNCHANGED <<Db, created, deleted>>

\* delete, from the lookup to the flush of "await session.commit()"
UserView_delete_get_user(r) ==
    /\ At(r, "UserView", "DELETE", "get_user")
    /\ LET res == get_user(req[r].id)
       IN  IF res.raise # ""
           THEN /\ Finish(r, req[r], lookup_error(res))
                /\ UNCHANGED created
           ELSE /\ Continue(r, [req[r] EXCEPT !.pc = "flush"], open_sessions)
                /\ created' = touch("UserView", req[r].id)
    /\ UNCHANGED <<Db, deleted>>

\* User.advertisements: the rows the relationship loads for a user
advertisements(user_id) == {a \in DOMAIN advs : advs[a].user_id = {int(user_id)}}

\* delete, the flush: the user's advertisements are loaded, to be detached
UserView_delete_flush(r) ==
    /\ At(r, "UserView", "DELETE", "flush")
    /\ Continue(r, [req[r] EXCEPT !.pc = "commit",
                                  !.children = advertisements(req[r].id)],
                open_sessions)
    /\ UNCHANGED <<Db, created, deleted>>

\* UPDATE advertisements SET user_id = NULL for the loaded advertisements
detach(table, children) ==
    [a \in DOMAIN table |->
        IF a \in children THEN [table[a] EXCEPT !.user_id = {}] ELSE table[a]]

\* delete, from the commit (UPDATE, DELETE, COMMIT) to the response
UserView_delete_commit(r) ==
    /\ At(r, "UserView", "DELETE", "commit")
    /\ IF \E a \in req[r].children : a \notin DOMAIN advs
       THEN /\ Finish(r, req[r], unhandled("StaleDataError"))
            /\ UNCHANGED <<users, advs, created, deleted>>
       ELSE IF advertisements(req[r].id) \ req[r].children # {}
       THEN /\ Finish(r, req[r], unhandled("IntegrityError"))
            /\ UNCHANGED <<users, advs, created, deleted>>
       ELSE /\ advs' = detach(advs, req[r].children)
            /\ users' = session_delete(users, int(req[r].id))
            /\ Finish(r, [req[r] EXCEPT !.committed = TRUE],
                      json_response([status |-> JStr("succes")]))
            /\ deleted' = deleted \cup {<<"UserView", req[r].id>>}
            /\ created' = disown(created, req[r].id)
    /\ UNCHANGED <<users_id_seq, advs_id_seq>>

\* patch, to "await self.request.json()"
UserView_patch(r, user_id) ==
    /\ Free(r)
    /\ Continue(r, arrive("UserView", "PATCH", user_id, "json", 0), open_sessions)
    /\ UNCHANGED <<Db, created, deleted>>

\* patch, from the body to "await get_user"
UserView_patch_json(r, body) ==
    /\ At(r, "UserView", "PATCH", "json")
    /\ LET json_data == PatchUserModel(body.obj)
           rq == [req[r] EXCEPT !.body = body]
       IN  IF ~body.json
           THEN Finish(r, rq, unhandled("JSONDecodeError"))
           ELSE IF ~json_data.ok
           THEN Finish(r, rq, unhandled("ValidationError"))
           ELSE Continue(r, [rq EXCEPT !.pc = "get_user",
                                       !.json_data = json_data.dict,
                                       !.opened = @ + 1],
                         Session(r))
    /\ UNCHANGED <<Db, created, deleted>>

\* patch, from the lookup and the setattr loop to "await session.commit()"
UserView_patch_get_user(r) ==
    /\ At(r, "UserView", "PATCH", "get_user")
    /\ LET res == get_user(req[r].id)
       IN  IF res.raise # ""
           THEN /\ Finish(r, req[r], lookup_error(res))
                /\ UNCHANGED created
           ELSE /\ Continue(r, [req[r] EXCEPT !.pc = "commit", !.loaded = res.row],
                            open_sessions)
                /\ created' = touch("UserView", req[r].id)
    /\ UNCHANGED <<Db, deleted>>

\* patch, from the commit (UPDATE of the changed columns, COMMIT) to the response
UserView_patch_commit(r) ==
    /\ At(r, "UserView", "PATCH", "commit")
    /\ LET columns == net_changes(req[r].loaded, req[r].json_data)
           user_id == int(req[r].id)
       IN  IF columns # {} /\ user_id \notin DOMAIN users
           THEN /\ Finish(r, req[r], unhandled("StaleDataError"))
                /\ UNCHANGED users
           ELSE IF /\ "username" \in columns
                   /\ unique_violation(users, req[r].json_data.username, user_id)
           THEN /\ Finish(r, req[r], unhandled("IntegrityError"))
                /\ UNCHANGED users
           ELSE /\ users' = IF columns = {} THEN users
                            ELSE update(users, user_id, req[r].json_data, columns)
                /\ Finish(r, [req[r] EXCEPT !.committed = TRUE],
                          json_response([status |-> JStr("success")]))
    /\ UNCHANGED <<advs, users_id_seq, advs_id_seq, created, deleted>>

(***************************************************************************)
(* AdvView.                                                                 *)
(***************************************************************************)
\* get, to "await get_adv"
AdvView_get(r, adv_id) ==
    /\ Free(r)
    /\ Continue(r, arrive("AdvView", "GET", adv_id, "get_adv", 1), Session(r))
    /\ UNCHANGED <<Db, created, deleted>>

\* datetime.isoformat() of a creation time
isoformat(creation_time) == str(creation_time)

\* get, from the lookup to the response
AdvView_get_adv(r) ==
    /\ At(r, "AdvView", "GET", "get_adv")
    /\ LET res == get_adv(req[r].id)
           adv == res.row
       IN  IF res.raise # ""
           THEN Finish(r, req[r], lookup_error(res))
           ELSE Finish(r, req[r],
                       json_response(
                         [title |-> JStr(adv.title),
                          description |-> JStr(adv.description),
                          date |-> JStr(isoformat(adv.creation_time)),
                          user_id |-> IF adv.user_id = {} THEN JNull
                                      ELSE JInt(CHOOSE u \in adv.user_id : TRUE)]))
    /\ UNCHANGED <<Db, created, deleted>>

\* post, to "await self.request.json()"
AdvView_post(r) ==
    /\ Free(r)
    /\ advs_id_seq + Posting("AdvView") < MaxAdvs
    /\ Continue(r, arrive("AdvView", "POST", "", "json", 0), open_sessions)
    /\ UNCHANGED <<Db, created, deleted>>

\* post, from the body to "await session.commit()"
AdvView_post_json(r, body) ==
    /\ At(r, "AdvView", "POST", "json")
    /\ LET json_data == CreateAdvModel(body.obj)
           rq == [req[r] EXCEPT !.body = body]
       IN  IF ~body.json
           THEN Finish(r, rq, unhandled("JSONDecodeError"))
           ELSE IF ~json_data.ok
           THEN Finish(r, rq, unhandled("ValidationError"))
           ELSE Continue(r, [rq EXCEPT !.pc = "commit",
                                       !.json_data = json_data.dict,
                                       !.opened = @ + 1],
                         Session(r))
    /\ UNCHANGED <<Db, created, deleted>>

\* func.now(), the server default of creation_time: the time of the INSERT,
\* counted in INSERTs
now == advs_id_seq + 1

\* post, from the commit (INSERT, COMMIT) to the return
AdvView_post_commit(r) ==
    /\ At(r, "AdvView", "POST", "commit")
    /\ IF out_of_range(req[r].json_data.user_id)
       THEN /\ Finish(r, req[r], unhandled("DBAPIError"))
            /\ UNCHANGED <<advs, advs_id_seq, created>>
       ELSE IF foreign_key_violation(users, int(req[r].json_data.user_id))
       THEN /\ advs_id_seq' = advs_id_seq + 1
            /\ Finish(r, req[r], BadRequest("advertisement already exists"))
            /\ UNCHANGED <<advs, created>>
       ELSE LET new_adv == Advertisement(req[r].json_data, advs_id_seq + 1, now)
            IN  /\ advs_id_seq' = advs_id_seq + 1
                /\ advs' = insert(advs, new_adv)
                /\ Finish(r, [req[r] EXCEPT !.committed = TRUE],
                          returned_dict([id |-> JInt(new_adv.id)]))
                /\ created' = created \cup
                     {[view |-> "AdvView", id |-> str(new_adv.id),
                       obj |-> req[r].body.obj, owner |-> TRUE]}
    /\ UNCHANGED <<users, users_id_seq, deleted>>

\* delete, to "await get_adv"
AdvView_delete(r, adv_id) ==
    /\ Free(r)
    /\ Continue(r, arrive("AdvView", "DELETE", adv_id, "get_adv", 1), Session(r))
    /\ UNCHANGED <<Db, created, deleted>>

\* delete, from the lookup to "await session.commit()"
AdvView_delete_get_adv(r) ==
    /\ At(r, "AdvView", "DELETE", "get_adv")
    /\ LET res == get_adv(req[r].id)
       IN  IF res.raise # ""
           THEN /\ Finish(r, req[r], lookup_error(res))
                /\ UNCHANGED created
           ELSE /\ Continue(r, [req[r] EXCEPT !.pc = "commit"], open_sessions)
                /\ created' = touch("AdvView", req[r].id)
    /\ UNCHANGED <<Db, deleted>>

\* delete, from the commit (DELETE, COMMIT) to the response
AdvView_delete_commit(r) ==
    /\ At(r, "AdvView", "DELETE", "commit")
    /\ advs' = session_delete(advs, int(req[r].id))
    /\ Finish(r, [req[r] EXCEPT !.committed = TRUE],
              json_response([status |-> JStr("succes")]))
    /\ deleted' = deleted \cup {<<"AdvView", req[r].id>>}
    /\ UNCHANGED <<users, users_id_seq, advs_id_seq, created>>

\* patch, to "await self.request.json()"
AdvView_patch(r, adv_id) ==
    /\ Free(r)
    /\ Continue(r, arrive("AdvView", "PATCH", adv_id, "json", 0), open_sessions)
    /\ UNCHANGED <<Db, created, deleted>>

\* patch, from the body to "await get_adv"
AdvView_patch_json(r, body) ==
    /\ At(r, "AdvView", "PATCH", "json")
    /\ LET json_data == PatchAdvModel(body.obj)
           rq == [req[r] EXCEPT !.body = body]
       IN  IF ~body.json
           THEN Finish(r, rq, unhandled("JSONDecodeError"))
           ELSE IF ~json_data.ok
           THEN Finish(r, rq, unhandled("ValidationError"))
           ELSE Continue(r, [rq EXCEPT !.pc = "get_adv",
                                       !.json_data = json_data.dict,
                                       !.opened = @ + 1],
                         Session(r))
    /\ UNCHANGED <<Db, created, deleted>>

\* patch, from the lookup and the setattr loop to "await session.commit()"
AdvView_patch_get_adv(r) ==
    /\ At(r, "AdvView", "PATCH", "get_adv")
    /\ LET res == get_adv(req[r].id)
       IN  IF res.raise # ""
           THEN /\ Finish(r, req[r], lookup_error(res))
                /\ UNCHANGED created
           ELSE /\ Continue(r, [req[r] EXCEPT !.pc = "commit", !.loaded = res.row],
                            open_sessions)
                /\ created' = touch("AdvView", req[r].id)
    /\ UNCHANGED <<Db, deleted>>

\* patch, from the commit (UPDATE of the changed columns, COMMIT) to the response
AdvView_patch_commit(r) ==
    /\ At(r, "AdvView", "PATCH", "commit")
    /\ LET columns == net_changes(req[r].loaded, req[r].json_data)
           adv_id == int(req[r].id)
       IN  IF columns # {} /\ adv_id \notin DOMAIN advs
           THEN /\ Finish(r, req[r], unhandled("StaleDataError"))
                /\ UNCHANGED advs
           ELSE /\ advs' = IF columns = {} THEN advs
                           ELSE update(advs, adv_id, req[r].json_data, columns)
                /\ Finish(r, [req[r] EXCEPT !.committed = TRUE],
                          json_response([status |-> JStr("success")]))
    /\ UNCHANGED <<users, users_id_seq, advs_id_seq, created, deleted>>

(***************************************************************************)
(* The application: the eight routes and the steps of their handlers.      *)
(***************************************************************************)
Next ==
    \E r \in Requests :
        \/ \E id \in AdvIds : AdvView_patch(r, id)
        \/ \E id \in AdvIds \cup {Huge} : AdvView_get(r, id)
        \/ \E id \in AdvIds : AdvView_delete(r, id)
        \/ AdvView_post(r)
        \/ \E id \in UserIds : UserView_patch(r, id)
        \/ \E id \in UserIds \cup {Huge} : UserView_get(r, id)
        \/ \E id \in UserIds : UserView_delete(r, id)
        \/ UserView_post(r)
        \/ UserView_get_user(r)
        \/ \E body \in CreateUserBodies : UserView_post_json(r, body)
        \/ UserView_post_commit(r)
        \/ UserView_delete_get_user(r)
        \/ UserView_delete_flush(r)
        \/ UserView_delete_commit(r)
        \/ \E body \in PatchUserBodies : UserView_patch_json(r, body)
        \/ UserView_patch_get_user(r)
        \/ UserView_patch_commit(r)
        \/ AdvView_get_adv(r)
        \/ \E body \in CreateAdvBodies : AdvView_post_json(r, body)
        \/ AdvView_post_commit(r)
        \/ AdvView_delete_get_adv(r)
        \/ AdvView_delete_commit(r)
        \/ \E body \in PatchAdvBodies : AdvView_patch_json(r, body)
        \/ AdvView_patch_get_adv(r)
        \/ AdvView_patch_commit(r)

Spec == Init /\ [][Next]_vars

(***************************************************************************)
(* What the properties below are stated with.                               *)
(***************************************************************************)
Table(view) == IF view = "UserView" THEN users ELSE advs

Sequence(view) == IF view = "UserView" THEN users_id_seq ELSE advs_id_seq

\* r ends in this step
Ends(r) == InFlight(r) /\ req'[r].pc = "idle"

\* no other request is in flight
Alone(r) == \A q \in Requests \ {r} : ~InFlight(q)

\* r takes a step
Steps(r) == req'[r] # req[r]

ErrorBody(description) == [status |-> JStr("error"), description |-> JStr(description)]

\* the validation model a body is parsed against
Model(view, method, obj) ==
    IF view = "UserView"
    THEN IF method = "POST" THEN CreateUserModel(obj) ELSE PatchUserModel(obj)
    ELSE IF method = "POST" THEN CreateAdvModel(obj) ELSE PatchAdvModel(obj)

\* the body of an ended POST or PATCH passed its validation
Valid(rq) == rq.body.json /\ Model(rq.view, rq.method, rq.body.obj).ok

\* a JSON value as the value of a declared type with the same text
As(type, v) == [t |-> type, s |-> v.s]

(***************************************************************************)
(* C3.  A POST /users/ whose username an existing user holds is answered   *)
(* 400 {status: "error", description: "user already exists"} and leaves    *)
(* the users as they were; no two stored users share a username, however   *)
(* the creates interleave.                                                  *)
(***************************************************************************)
UniqueUsernames ==
    \A u, v \in DOMAIN users : users[u].username = users[v].username => u = v

DuplicateRejected ==
    \A r \in Requests :
        ( /\ At(r, "UserView", "POST", "commit")
          /\ Ends(r)
          /\ \E u \in DOMAIN users : users[u].username = req[r].json_data.username )
        => /\ last'.resp.status = 400
           /\ last'.resp.body = ErrorBody("user already exists")
           /\ users' = users

C3_DuplicateUser == []UniqueUsernames /\ [][DuplicateRejected]_vars

\* a create was answered 400 while the holder of its username is stored
C3_Witness ==
    /\ last.view = "UserView" /\ last.method = "POST"
    /\ last.resp.status = 400
    /\ \E u \in DOMAIN users : JStr(users[u].username) = last.body.obj.username

(***************************************************************************)
(* C8.  A request opens at most one session; a request that has ended has  *)
(* no open session, whatever its response; a request still reading its     *)
(* body, or ended by a body that failed validation, has opened none; and   *)
(* with no request in flight no session is open.                           *)
(***************************************************************************)
C8_Sessions ==
    /\ \A r \in Requests :
          /\ req[r].opened <= 1
          /\ ~InFlight(r) => r \notin open_sessions
          /\ req[r].pc = "json" => (r \notin open_sessions /\ req[r].opened = 0)
          /\ r \in open_sessions => req[r].opened = 1
    /\ last.opened <= 1
    /\ (last.method \in {"POST", "PATCH"} /\ ~Valid(last)) => last.opened = 0
    /\ (\A r \in Requests : ~InFlight(r)) => open_sessions = {}

\* a request ended by an error raised inside its session block, none in flight
C8_Witness ==
    /\ last.resp.kind \in {"HTTPException", "Exception"}
    /\ last.opened = 1
    /\ \A r \in Requests : ~InFlight(r)
    /\ open_sessions = {}

(***************************************************************************)
(* C10.  In every reachable state the user_id of every stored              *)
(* advertisement is NULL or the id of a stored user.                       *)
(***************************************************************************)
C10_ReferentialIntegrity ==
    \A a \in DOMAIN advs : advs[a].user_id \subseteq DOMAIN users

\* an advertisement whose user was deleted is stored, detached
C10_Witness ==
    \E a \in DOMAIN advs :
        /\ advs[a].user_id = {}
        /\ last.view = "UserView" /\ last.method = "DELETE"
        /\ last.resp.status = 200

(***************************************************************************)
(* C1.  Round trip.  A GET of a row that is as its create left it.          *)
(***************************************************************************)
\* r is a GET that arrived after the create of its row returned and ends in
\* this step, and e is what created holds of that row
ReadsCreated(r, e) ==
    /\ req[r].method = "GET" /\ Ends(r) /\ req[r].after = "create"
    /\ e.view = req[r].view /\ e.id = req[r].id

\* the fields of a response body are the values of the submitted object
Returns(body, obj, fields) == \A f \in fields : body[f] = obj[f]

\* the submitted object, each field as the value of its declared type
Normalised(e) ==
    IF e.view = "UserView"
    THEN [username |-> As("str", e.obj.username)]
    ELSE [title |-> As("str", e.obj.title),
          description |-> As("str", e.obj.description),
          user_id |-> As("int", e.obj.user_id)]

RoundTripFields(view) ==
    IF view = "UserView" THEN {"username"} ELSE {"title", "description", "user_id"}

\* C1 as stated: the GET of a created row that no PATCH or DELETE of its id
\* has loaded returns the submitted values of username (user), and of title,
\* description and user_id (advertisement).
C1_Original ==
    [][\A r \in Requests : \A e \in created :
         (ReadsCreated(r, e) /\ Alone(r))
         => /\ last'.resp.status = 200
            /\ Returns(last'.resp.body, e.obj, RoundTripFields(e.view))]_vars

\* C1 as amended: the GET of a created row that no PATCH or DELETE of its id
\* has loaded and, for an advertisement, whose user no DELETE has committed,
\* returns each submitted value as the value of the declared type of its
\* field: username, title and description as strings, user_id as an integer.
C1_RoundTrip ==
    [][\A r \in Requests : \A e \in created :
         (ReadsCreated(r, e) /\ e.owner)
         => /\ last'.resp.status = 200
            /\ Returns(last'.resp.body, Normalised(e), RoundTripFields(e.view))]_vars

\* an advertisement created with its user_id as a string has been read back
C1_Witness ==
    \E e \in created :
        /\ e.owner /\ e.view = "AdvView" /\ e.obj.user_id.t = "str"
        /\ last.method = "GET" /\ last.view = e.view /\ last.id = e.id
        /\ last.after = "create"
        /\ last.resp.status = 200

(***************************************************************************)
(* C2.  A POST that passes validation and whose commit violates no         *)
(* constraint is answered 200 {id}; the row is persisted if and only if    *)
(* that response is produced.                                               *)
(***************************************************************************)
C2_Create200 ==
    last.method = "POST"
    => (last.committed <=> (last.resp.status = 200 /\ DOMAIN last.resp.body = {"id"}))

(***************************************************************************)
(* C4.  A GET, a DELETE, and a PATCH whose body passes its validation (the *)
(* requests that reach the lookup), to an id that was never created, is    *)
(* answered 404 with an error body and commits nothing.                     *)
(***************************************************************************)
\* no row of the view has ever had the id
NeverCreated(view, id) == out_of_range(id) \/ int(id) > Sequence(view)

\* the request that ended ran its lookup
ReachedLookup(rq) ==
    rq.method \in {"GET", "DELETE"} \/ (rq.method = "PATCH" /\ Valid(rq))

C4_NotFound ==
    (ReachedLookup(last) /\ NeverCreated(last.view, last.id))
    => /\ last.resp.status = 404
       /\ last.resp.body.status = JStr("error")
       /\ ~last.committed

(***************************************************************************)
(* C5.  After a DELETE was answered with success.                           *)
(***************************************************************************)
Gone == \A k \in deleted : int(k[2]) \notin DOMAIN Table(k[1])

\* C5 as stated: the row is gone, and every later GET, PATCH or DELETE of
\* the id is answered 404.
C5_Original ==
    /\ Gone
    /\ (last.after = "delete" /\ last.method \in {"GET", "PATCH", "DELETE"})
       => last.resp.status = 404

\* C5 as amended: the row is gone in every later state, and every later
\* GET, DELETE, and PATCH whose body is a JSON object that passes the patch
\* validation, of the id is answered 404.
C5_DeletedStaysGone ==
    /\ Gone
    /\ (last.after = "delete" /\ ReachedLookup(last))
       => (last.resp.status = 404 /\ last.resp.kind = "HTTPException")

\* a GET that arrived after the DELETE of its id succeeded was answered 404,
\* with another row created since
C5_Witness ==
    /\ last.after = "delete" /\ last.method = "GET"
    /\ last.resp.status = 404
    /\ Sequence(last.view) > int(last.id)

(***************************************************************************)
(* C6.  A successful PATCH of an existing row overwrites exactly the       *)
(* recognised fields present with a non-null value in its body, and leaves *)
(* every other field of the row and every other row unchanged.             *)
(***************************************************************************)
\* r is a PATCH that arrived with its row stored, and whose commit ends in
\* this step with success, the row still stored
PatchCommits(r) ==
    /\ req[r].method = "PATCH" /\ req[r].pc = "commit" /\ Ends(r)
    /\ req[r].after = "create"
    /\ last'.resp.status = 200
    /\ int(req[r].id) \in DOMAIN Table(req[r].view)

\* after the step, the row holds the value in column c
Holds(r, c, value) ==
    IF req[r].view = "UserView" THEN users'[int(req[r].id)][c] = value
    ELSE advs'[int(req[r].id)][c] = value

C6_PatchFrame ==
    [][\A r \in Requests :
         PatchCommits(r)
         => LET id == int(req[r].id)
                row == Table(req[r].view)[id]
            IN  /\ \A c \in DOMAIN row :
                      Holds(r, c, IF c \in DOMAIN req[r].json_data
                                  THEN req[r].json_data[c] ELSE row[c])
                /\ \A i \in DOMAIN users :
                      (req[r].view = "UserView" /\ i = id) \/ users'[i] = users[i]
                /\ \A i \in DOMAIN advs :
                      (req[r].view = "AdvView" /\ i = id) \/ advs'[i] = advs[i]
                /\ DOMAIN users' = DOMAIN users /\ DOMAIN advs' = DOMAIN advs]_vars

(***************************************************************************)
(* C7.  A request whose body fails validation, and a request whose commit  *)
(* violates the uniqueness of username, is answered 400 with an error      *)
(* body, and leaves the stored rows unchanged.                              *)
(***************************************************************************)
\* r ends in this step at the parse and validation of its body
FailsValidation(r) == req[r].pc = "json" /\ Ends(r)

\* r runs in this step the commit of a username another stored user holds
ViolatesUnique(r) ==
    /\ req[r].view = "UserView" /\ req[r].pc = "commit" /\ Steps(r)
    /\ \/ /\ req[r].method = "POST"
          /\ unique_violation(users, req[r].json_data.username, 0)
       \/ /\ req[r].method = "PATCH"
          /\ int(req[r].id) \in DOMAIN users
          /\ "username" \in net_changes(req[r].loaded, req[r].json_data)
          /\ unique_violation(users, req[r].json_data.username, int(req[r].id))

C7_BadRequest ==
    [][\A r \in Requests :
         (FailsValidation(r) \/ ViolatesUnique(r))
         => /\ Ends(r)
            /\ last'.resp.status = 400
            /\ last'.resp.body.status = JStr("error")
            /\ users' = users /\ advs' = advs]_vars

(***************************************************************************)
(* C9.  Two PATCH requests of one row that overlap both succeed, and once  *)
(* both have committed a field both set holds the value of the one that    *)
(* committed last, a field only one set holds the value of that one.       *)
(***************************************************************************)
\* the PATCH that ended in the step before overlapped r and patched r's row,
\* and both arrived with the row stored
CommitsAfterLast(r) ==
    /\ req[r].method = "PATCH" /\ req[r].pc = "commit" /\ Ends(r)
    /\ last.method = "PATCH" /\ last.view = req[r].view /\ last.id = req[r].id
    /\ req[r].after = "create" /\ last.after = "create"
    /\ last.committed /\ r \in last.inflight
    /\ int(req[r].id) \in DOMAIN Table(req[r].view)

C9_LastCommitterWins ==
    [][\A r \in Requests :
         CommitsAfterLast(r)
         => LET first == Model(last.view, "PATCH", last.body.obj).dict
                second == req[r].json_data
            IN  /\ last'.resp.status = 200
                /\ \A c \in DOMAIN second : Holds(r, c, second[c])
                /\ \A c \in DOMAIN first \ DOMAIN second : Holds(r, c, first[c])]_vars

====
